---- MODULE Spec2Model ----
(***************************************************************************)
(* Model of the expo-bluetooth client coordination layer                   *)
(* (packages/expo-bluetooth/src/Bluetooth.ts).                             *)
(*                                                                         *)
(* JavaScript runs every callback to completion, so one action is one      *)
(* synchronous run: a public call up to its first suspension on a native   *)
(* promise, the continuation after a native promise settles, a timer       *)
(* callback, or the push-channel listener for one event.                   *)
(***************************************************************************)
EXTENDS Naturals, Sequences, FiniteSets

VARIABLES
  unsupported,  \* native operations the availability predicate reports missing
  handlers,     \* HandlerRegistry: event key -> sequence of handlers
  cache,        \* TopologyCache: peripheral id -> record, or Absent
  conn,         \* connectAsync calls that passed validation, in call order
  scans,        \* number of startScan calls that returned a cancel closure
  cancelled,    \* scans whose cancel closure has been called
  unhandled,    \* promise rejections nobody handles
  stateObs,     \* observeStateAsync calls that passed validation, in call order
  disc,         \* the recursive discovery last started: its calls, by id
  load,         \* the loadPeripheralAsync call last made
  last          \* what the most recent run did (its result and its effects)

vars == <<unsupported, handlers, cache, conn, scans, cancelled, unhandled, stateObs, disc, load, last>>

----------------------------------------------------------------------------
(* Bounds *)

MaxCalls == 1
MaxScans == 2
MaxObservers == 1
MaxStateObservers == 2

----------------------------------------------------------------------------
(* Values *)

PeripheralIds == {"P1", "P2"}
BadId == "not-a-uuid"
\* Peripheral ids given to connectAsync, disconnectAsync and readRSSIAsync.
InputIds == {"P1", BadId}
ServiceIds == {"S1"}
ScanFilters == {<<>>, <<"A", "A">>, <<"A", "B">>}
Absent == [absent |-> TRUE]
NoRecord == [id |-> "", state |-> "", services |-> {}, characteristics |-> {}]

\* A peripheral as the native side reports it in an event: its services by
\* id, and the characteristics known below them as <<service, characteristic>>.
PeripheralRecords ==
  [id : PeripheralIds, state : {"disconnected", "connected"},
   services : SUBSET ServiceIds, characteristics : {{}}]

EVENTS ==
  [CENTRAL_DID_DISCOVER_PERIPHERAL |-> "discover",
   CENTRAL_DID_DISCONNECT_PERIPHERAL |-> "disconnect",
   CENTRAL_DID_UPDATE_STATE |-> "state",
   CENTRAL_DID_RETRIEVE_CONNECTED_PERIPHERALS |-> "retrieveConnected",
   CENTRAL_DID_RETRIEVE_PERIPHERALS |-> "retrieve",
   ENABLE_BLUETOOTH |-> "enable"]

Keys == {"discover", "disconnect", "state", "everything", "enable"}

Handler(kind, n) == [kind |-> kind, n |-> n]

SeqsUpTo(S, n) == UNION {[1..k -> S] : k \in 0..n}

RECURSIVE Count(_, _)
Count(s, x) ==
  IF s = <<>> THEN 0
  ELSE (IF Head(s) = x THEN 1 ELSE 0) + Count(Tail(s), x)

Range(s) == {s[i] : i \in 1..Len(s)}

\* A run: the operation, its argument, its result, the native requests it
\* issued and the handlers it invoked, in order.
Step(op, id, result, issued, invoked) ==
  [op |-> op, id |-> id, data |-> <<>>, result |-> result, issued |-> issued,
   invoked |-> invoked]

\* A run of a call that is given a composite id.
IdStep(op, id, result, issued) ==
  [op |-> op, id |-> "", data |-> id, result |-> result, issued |-> issued,
   invoked |-> <<>>]

EventStep(event, data, result, invoked) ==
  [op |-> "event", id |-> event, data |-> data, result |-> result, issued |-> <<>>,
   invoked |-> invoked]

Invocation(h, payload) == [h |-> h, payload |-> payload]

Request(op, arg) == [op |-> op, arg |-> arg]

ValidationErrors == {"UnavailableCapability", "MalformedAddress"}

----------------------------------------------------------------------------
(* Consumed interfaces *)

\* invariantAvailability(name): throws when the capability is not supported.
invariantAvailability(name) ==
  IF name \in unsupported THEN "UnavailableCapability" ELSE "ok"

\* invariantUUID(uuid): throws when the id is not a well-formed UUID.
invariantUUID(uuid) ==
  IF uuid \in PeripheralIds THEN "ok" ELSE "MalformedAddress"

\* The first failing check of a sequence of checks decides.
RECURSIVE FirstFailure(_)
FirstFailure(checks) ==
  IF checks = <<>> THEN "ok"
  ELSE IF Head(checks) # "ok" THEN Head(checks)
  ELSE FirstFailure(Tail(checks))

\* HandlerRegistry.register: append, no deduplication.
addHandlerForKey(reg, key, h) == [reg EXCEPT ![key] = Append(@, h)]

\* A promise settles once: later resolve/reject calls are ignored.
Settle(outcome, v) == IF outcome = "pending" THEN v ELSE outcome

----------------------------------------------------------------------------
(* connectAsync *)

\* Checks done before anything else (lines 141-142).
connectValidation(peripheralUUID) ==
  FirstFailure(<<invariantAvailability("connectPeripheralAsync"),
                 invariantUUID(peripheralUUID)>>)

\* Variant: onDisconnect registered before the checks have passed.
connectRegisterEager(err, h, onDisconnect) ==
  IF onDisconnect
  THEN addHandlerForKey(handlers, EVENTS.CENTRAL_DID_DISCONNECT_PERIPHERAL, h)
  ELSE handlers

\* Registration of onDisconnect (lines 144-147); runs only after validation.
connectRegister(err, h, onDisconnect) ==
  IF err = "ok" /\ onDisconnect
  THEN addHandlerForKey(handlers, EVENTS.CENTRAL_DID_DISCONNECT_PERIPHERAL, h)
  ELSE handlers

\* setTimeout of line 153: only when options.timeout is truthy.
connectTimer(timeout) == IF timeout THEN "pending" ELSE "none"

\* Variant: the timer is never cleared.
clearTimeoutForgotten(timer) == timer

\* clearTimeout(timeoutTag): cancels a pending timer, otherwise does nothing.
clearTimeout(timer) == IF timer = "pending" THEN "cleared" ELSE timer

\* disconnectAsync up to its native request: the checks, then the request.
disconnectValidation(peripheralUUID) ==
  FirstFailure(<<invariantAvailability("disconnectPeripheralAsync"),
                 invariantUUID(peripheralUUID)>>)

\* Variant: the timer callback disconnects some other peripheral.
timeoutDisconnectOther(call) == CHOOSE p \in PeripheralIds : p # call.id

\* The id the timer callback disconnects: the one connectAsync was called with.
timeoutDisconnectId(call) == call.id

\* The timer callback (lines 153-163): disconnectAsync(peripheralUUID) without
\* awaiting or catching its promise, then reject(timeout error).
timeoutCallback(call) ==
  LET id == timeoutDisconnectId(call)
      err == disconnectValidation(id)
  IN [call EXCEPT
        !.timer = "fired",
        !.first = IF @ = "none" THEN "expired" ELSE @,
        !.disc = Append(@, [id |-> id,
                            st |-> IF err = "ok" THEN "pending" ELSE err]),
        !.outcome = Settle(@, "ConnectTimeout")]

\* Variant: the native failure is caught and dropped.
connectCatchSwallowed(outcome) == outcome

\* catch (error) { reject(error) } of lines 169-170.
connectCatch(outcome) == Settle(outcome, "NativeFailure")

\* Continuation after the native connect resolved: finally, then resolve(result).
connectResolved(call) ==
  [call EXCEPT
     !.native = "resolved",
     !.first = IF @ = "none" THEN "resolved" ELSE @,
     !.timer = clearTimeout(@),
     !.outcome = Settle(@, "Resolved")]

\* Continuation after the native connect failed: catch, finally, and then the
\* resolve(result) of line 174 with result still undefined.
connectFailed(call) ==
  [call EXCEPT
     !.native = "failed",
     !.first = IF @ = "none" THEN "failed" ELSE @,
     !.timer = clearTimeout(@),
     !.outcome = Settle(connectCatch(@), "ResolvedEmpty")]

connectAsync(peripheralUUID, timeout, onDisconnect) ==
  /\ connectValidation(peripheralUUID) = "ok" => Len(conn) < MaxCalls
  /\ LET err == connectValidation(peripheralUUID)
         c == Len(conn) + 1
     IN /\ handlers' = connectRegister(err, Handler("onDisconnect", c), onDisconnect)
        /\ IF err = "ok"
           THEN /\ conn' = Append(conn,
                     [id |-> peripheralUUID, onDisconnect |-> onDisconnect,
                      timer |-> connectTimer(timeout), native |-> "pending",
                      first |-> "none", outcome |-> "pending", disc |-> <<>>])
                /\ last' = Step("connectAsync", peripheralUUID, "pending",
                                <<Request("connectPeripheralAsync", peripheralUUID)>>, <<>>)
           ELSE /\ conn' = conn
                /\ last' = Step("connectAsync", peripheralUUID, err, <<>>, <<>>)
  /\ UNCHANGED <<unsupported, cache, scans, cancelled, unhandled, stateObs, disc, load>>

\* Requests the timer callback issued in this run, and the rejections it left.
TimerIssued(call) ==
  LET d == call.disc[Len(call.disc)]
  IN IF d.st = "pending" THEN <<Request("disconnectPeripheralAsync", d.id)>> ELSE <<>>

TimerUnhandled(c, call) ==
  LET d == call.disc[Len(call.disc)]
  IN IF d.st = "pending" THEN {} ELSE {[call |-> c, error |-> d.st]}

connectTimerFires(c) ==
  /\ c \in 1..Len(conn)
  /\ conn[c].timer = "pending"
  /\ LET call == timeoutCallback(conn[c])
     IN /\ conn' = [conn EXCEPT ![c] = call]
        /\ unhandled' = unhandled \cup TimerUnhandled(c, call)
        /\ last' = Step("connectTimer", conn[c].id, call.outcome, TimerIssued(call), <<>>)
  /\ UNCHANGED <<unsupported, handlers, cache, scans, cancelled, stateObs, disc, load>>

\* The native disconnect issued by a timer callback settles; nobody awaits it.
cleanupDisconnectSettles(c, ok) ==
  /\ c \in 1..Len(conn)
  /\ \E i \in 1..Len(conn[c].disc) :
       /\ conn[c].disc[i].st = "pending"
       /\ conn' = [conn EXCEPT ![c].disc[i].st = IF ok THEN "resolved" ELSE "NativeFailure"]
  /\ unhandled' = IF ok THEN unhandled
                  ELSE unhandled \cup {[call |-> c, error |-> "NativeFailure"]}
  /\ last' = Step("disconnectSettled", conn[c].id, IF ok THEN "Resolved" ELSE "NativeFailure",
                  <<>>, <<>>)
  /\ UNCHANGED <<unsupported, handlers, cache, scans, cancelled, stateObs, disc, load>>

----------------------------------------------------------------------------
(* Validated pass-throughs *)

disconnectAsync(peripheralUUID) ==
  /\ LET err == disconnectValidation(peripheralUUID)
     IN last' = Step("disconnectAsync", peripheralUUID, err,
                     IF err = "ok"
                     THEN <<Request("disconnectPeripheralAsync", peripheralUUID)>>
                     ELSE <<>>, <<>>)
  /\ UNCHANGED <<unsupported, handlers, cache, conn, scans, cancelled, unhandled, stateObs, disc, load>>

readRSSIValidation(peripheralUUID) ==
  FirstFailure(<<invariantAvailability("readRSSIAsync"), invariantUUID(peripheralUUID)>>)

readRSSIAsync(peripheralUUID) ==
  /\ LET err == readRSSIValidation(peripheralUUID)
     IN last' = Step("readRSSIAsync", peripheralUUID, err,
                     IF err = "ok" THEN <<Request("readRSSIAsync", peripheralUUID)>>
                     ELSE <<>>, <<>>)
  /\ UNCHANGED <<unsupported, handlers, cache, conn, scans, cancelled, unhandled, stateObs, disc, load>>

\* An operation that hands its arguments to one native operation: `err` is
\* the outcome of the checks it makes before the request.
passThrough(name, err, native, arg) ==
  Step(name, "", IF err = "ok" THEN "pending" ELSE err,
       IF err = "ok" THEN <<Request(native, arg)>> ELSE <<>>, <<>>)

\* Lines 185-200: no availability check.
readDescriptorAsync(address) ==
  /\ last' = passThrough("readDescriptorAsync", "ok", "readDescriptorAsync", address)
  /\ UNCHANGED <<unsupported, handlers, cache, conn, scans, cancelled, unhandled, stateObs, disc, load>>

\* Lines 203-220.
writeDescriptorAsync(address) ==
  /\ last' = passThrough("writeDescriptorAsync", invariantAvailability("writeDescriptorAsync"),
                        "writeDescriptorAsync", address)
  /\ UNCHANGED <<unsupported, handlers, cache, conn, scans, cancelled, unhandled, stateObs, disc, load>>

\* Lines 221-238.
shouldNotifyDescriptorAsync(address) ==
  /\ last' = passThrough("shouldNotifyDescriptorAsync",
                        invariantAvailability("setNotifyCharacteristicAsync"),
                        "setNotifyCharacteristicAsync", address)
  /\ UNCHANGED <<unsupported, handlers, cache, conn, scans, cancelled, unhandled, stateObs, disc, load>>

\* Lines 241-254: no availability check.
readCharacteristicAsync(address) ==
  /\ last' = passThrough("readCharacteristicAsync", "ok", "readCharacteristicAsync", address)
  /\ UNCHANGED <<unsupported, handlers, cache, conn, scans, cancelled, unhandled, stateObs, disc, load>>

\* Lines 257-271: no availability check.
writeCharacteristicAsync(address) ==
  /\ last' = passThrough("writeCharacteristicAsync", "ok", "writeCharacteristicAsync", address)
  /\ UNCHANGED <<unsupported, handlers, cache, conn, scans, cancelled, unhandled, stateObs, disc, load>>

\* Lines 276-290: no availability check; the native operation is the plain write.
writeCharacteristicWithoutResponseAsync(address) ==
  /\ last' = passThrough("writeCharacteristicWithoutResponseAsync", "ok",
                        "writeCharacteristicAsync", address)
  /\ UNCHANGED <<unsupported, handlers, cache, conn, scans, cancelled, unhandled, stateObs, disc, load>>

getPeripheralsAsync ==
  /\ last' = passThrough("getPeripheralsAsync", invariantAvailability("getPeripheralsAsync"),
                        "getPeripheralsAsync", <<>>)
  /\ UNCHANGED <<unsupported, handlers, cache, conn, scans, cancelled, unhandled, stateObs, disc, load>>

getCentralAsync ==
  /\ last' = passThrough("getCentralAsync", invariantAvailability("getCentralAsync"),
                        "getCentralAsync", <<>>)
  /\ UNCHANGED <<unsupported, handlers, cache, conn, scans, cancelled, unhandled, stateObs, disc, load>>

getConnectedPeripheralsAsync ==
  /\ last' = passThrough("getConnectedPeripheralsAsync",
                        invariantAvailability("getConnectedPeripheralsAsync"),
                        "getConnectedPeripheralsAsync", <<>>)
  /\ UNCHANGED <<unsupported, handlers, cache, conn, scans, cancelled, unhandled, stateObs, disc, load>>

----------------------------------------------------------------------------
(* Scanning *)

\* [...new Set(serviceUUIDsToQuery)]: first occurrences, in order.
RECURSIVE Dedup(_)
Dedup(s) ==
  IF s = <<>> THEN <<>>
  ELSE LET r == Dedup(SubSeq(s, 1, Len(s) - 1))
           x == s[Len(s)]
       IN IF x \in Range(r) THEN r ELSE Append(r, x)

startScanValidation == invariantAvailability("startScanningAsync")

\* Registration of the scan callback (lines 98-106); runs after the checks.
startScanRegister(err, h) ==
  IF err = "ok"
  THEN addHandlerForKey(handlers, EVENTS.CENTRAL_DID_DISCOVER_PERIPHERAL, h)
  ELSE handlers

startScan(serviceUUIDsToQuery) ==
  /\ startScanValidation = "ok" => scans < MaxScans
  /\ LET err == startScanValidation
     IN /\ handlers' = startScanRegister(err, Handler("scan", scans + 1))
        /\ scans' = IF err = "ok" THEN scans + 1 ELSE scans
        /\ last' = Step("startScan", "", err,
                        IF err = "ok"
                        THEN <<Request("startScanningAsync", Dedup(serviceUUIDsToQuery))>>
                        ELSE <<>>, <<>>)
  /\ UNCHANGED <<unsupported, cache, conn, cancelled, unhandled, stateObs, disc, load>>

\* stopScanAsync up to its native request (lines 114-119): the check, then
\* resetHandlersForKey, then the request.
resetHandlersForKey(reg, key) == [reg EXCEPT ![key] = <<>>]

stopScanValidation == invariantAvailability("stopScanningAsync")

\* Variant: stopScanAsync leaves the discovery callbacks registered.
stopScanKeepsHandlers(reg) == reg

stopScanHandlers(reg) ==
  IF stopScanValidation = "ok"
  THEN resetHandlersForKey(reg, EVENTS.CENTRAL_DID_DISCOVER_PERIPHERAL)
  ELSE reg

stopScanIssued ==
  IF stopScanValidation = "ok" THEN <<Request("stopScanningAsync", <<>>)>> ELSE <<>>

stopScanAsync ==
  /\ handlers' = stopScanHandlers(handlers)
  /\ last' = Step("stopScanAsync", "", stopScanValidation, stopScanIssued, <<>>)
  /\ UNCHANGED <<unsupported, cache, conn, scans, cancelled, unhandled, stateObs, disc, load>>

\* Subscription.remove(): removes exactly the handler it names.
removeHandler(reg, key, h) ==
  [reg EXCEPT ![key] = SelectSeq(@, LAMBDA x : x # h)]

\* Variant: the closure stops the scan without removing its own handler.
cancelWithoutRemove(s) == stopScanHandlers(handlers)

\* The closure startScan returned for scan s (lines 108-111):
\* subscription.remove(), then stopScanAsync().
cancelHandlers(s) ==
  stopScanHandlers(
    removeHandler(handlers, EVENTS.CENTRAL_DID_DISCOVER_PERIPHERAL, Handler("scan", s)))

cancelScan(s) ==
  /\ s \in 1..scans
  /\ handlers' = cancelHandlers(s)
  /\ cancelled' = cancelled \cup {s}
  /\ last' = Step("cancelScan", "", stopScanValidation, stopScanIssued, <<>>)
  /\ UNCHANGED <<unsupported, cache, conn, scans, unhandled, stateObs, disc, load>>

\* observeUpdates (lines 122-124).
observeUpdates ==
  /\ Len(handlers["everything"]) < MaxObservers
  /\ handlers' = addHandlerForKey(handlers, "everything",
                    Handler("observer", Len(handlers["everything"]) + 1))
  /\ last' = Step("observeUpdates", "", "ok", <<>>, <<>>)
  /\ UNCHANGED <<unsupported, cache, conn, scans, cancelled, unhandled, stateObs, disc, load>>

----------------------------------------------------------------------------
(* TopologyCache *)

clearPeripherals == [p \in PeripheralIds |-> Absent]

\* mergePeripheral: upsert by identifier; scalar fields are overwritten, the
\* child map is merged, entries absent from the record are left untouched.
updateStateWithPeripheral(c, peripheral) ==
  [c EXCEPT ![peripheral.id] =
     IF @ = Absent THEN peripheral
     ELSE [id |-> peripheral.id, state |-> peripheral.state,
           services |-> @.services \cup peripheral.services,
           characteristics |-> @.characteristics \cup peripheral.characteristics]]

RECURSIVE updateAll(_, _)
updateAll(c, peripherals) ==
  IF peripherals = <<>> THEN c
  ELSE updateAll(updateStateWithPeripheral(c, Head(peripherals)), Tail(peripherals))

----------------------------------------------------------------------------
(* The push-channel listener *)

\* The handler startScan registers (lines 100-105) hands event.peripheral to
\* the scan callback.
scanCallbackArg(event) == event.peripheral

\* What a handler does with the payload it is given: the scan handler calls
\* the scan callback, any other handler is the caller's callback itself.
deliver(h, payload) ==
  IF h.kind = "scan" THEN Invocation(h, scanCallbackArg(payload))
  ELSE Invocation(h, payload)

\* dispatchAll: every handler registered under the key, in order.
fireMultiEventHandlers(key, payload) ==
  [i \in 1..Len(handlers[key]) |-> deliver(handlers[key][i], payload)]

\* The topology observers, each given the cache as it is when they are fired.
firePeripheralObservers(c) ==
  [i \in 1..Len(handlers["everything"]) |->
     Invocation(handlers["everything"][i], [peripherals |-> c])]

NoData == [peripheral |-> Absent, peripherals |-> Absent, central |-> Absent]

\* Payloads of an UPDATE: the native peripheral list, one record per id.
PeripheralLists ==
  {l \in SeqsUpTo(PeripheralRecords, Cardinality(PeripheralIds)) :
     \A i, j \in 1..Len(l) : l[i].id = l[j].id => i = j}

UnknownPayloads ==
  {Absent, [id |-> "P1", state |-> "connected", services |-> {}, characteristics |-> {}]}

Centrals == [state : {"poweredOn", "poweredOff"}]

UnknownEvents == {"connect", "bogus"}

NativeEvents ==
  [event : {"UPDATE"}, data : {[NoData EXCEPT !.peripherals = l] :
                                 l \in {[list |-> x] : x \in PeripheralLists} \cup {Absent}}]
  \cup [event : {EVENTS.CENTRAL_DID_DISCOVER_PERIPHERAL,
                 EVENTS.CENTRAL_DID_DISCONNECT_PERIPHERAL},
        data : {[NoData EXCEPT !.peripheral = p] : p \in PeripheralRecords \cup {Absent}}]
  \cup [event : UnknownEvents,
        data : {[NoData EXCEPT !.peripheral = p] : p \in UnknownPayloads}]
  \cup [event : {EVENTS.CENTRAL_DID_UPDATE_STATE, EVENTS.ENABLE_BLUETOOTH},
        data : {[NoData EXCEPT !.central = c] : c \in Centrals \cup {Absent}}]
  \cup [event : {EVENTS.CENTRAL_DID_RETRIEVE_CONNECTED_PERIPHERALS,
                 EVENTS.CENTRAL_DID_RETRIEVE_PERIPHERALS},
        data : {NoData}]

\* Variant: the payload is merged into the cache without clearing it first.
updateCacheKeepOld(peripherals) ==
  IF peripherals = Absent THEN cache ELSE updateAll(cache, peripherals.list)

\* The UPDATE branch (lines 498-507): clear, merge every peripheral of the
\* payload, then fire the observers.
updateCache(peripherals) ==
  IF peripherals = Absent THEN clearPeripherals
  ELSE updateAll(clearPeripherals, peripherals.list)

updateObservers(peripherals) == firePeripheralObservers(updateCache(peripherals))

\* The discover/disconnect branch (lines 510-514).
peripheralEventCache(peripheral) == cache

peripheralEventInvoked(event, peripheral) ==
  fireMultiEventHandlers(event, [peripheral |-> peripheral])
    \o firePeripheralObservers(peripheralEventCache(peripheral))

\* A state callback is the caller's code: it may throw when it is called.
callbackThrows(h) ==
  /\ h.kind = "state"
  /\ h.n \in 1..Len(stateObs)
  /\ stateObs[h.n].throws

\* The loop of lines 520-522 calls the handlers in order with central.state
\* and has no try/catch: the first callback that throws ends the loop.
RECURSIVE stateLoop(_, _)
stateLoop(hs, state) ==
  IF hs = <<>> THEN <<>>
  ELSE IF callbackThrows(Head(hs)) THEN <<Invocation(Head(hs), state)>>
  ELSE <<Invocation(Head(hs), state)>> \o stateLoop(Tail(hs), state)

\* The state branch (lines 515-524).
stateInvoked(event, central) == stateLoop(handlers[event], central.state)

\* The exception of a throwing callback leaves the listener.
stateResult(event, central) ==
  IF \E i \in 1..Len(handlers[event]) : callbackThrows(handlers[event][i])
  THEN "HandlerFailure"
  ELSE "ok"

\* What each state callback was last given by the listener.
stateDelivered(invoked) ==
  [k \in 1..Len(stateObs) |->
     IF \E i \in 1..Len(invoked) : invoked[i].h = Handler("state", k)
     THEN [stateObs[k] EXCEPT !.lastEvent = invoked[1].payload]
     ELSE stateObs[k]]

\* Variant: an unrecognized event still notifies the topology observers.
unhandledFallsThrough(event) == firePeripheralObservers(cache)

\* The default branch (lines 531-532): throw, nothing else.
unhandledInvoked(event) == <<>>

onNativeEvent(event, data) ==
  /\ IF event = "UPDATE"
     THEN /\ cache' = updateCache(data.peripherals)
          /\ last' = EventStep(event, data, "ok", updateObservers(data.peripherals))
     ELSE IF event \in {EVENTS.CENTRAL_DID_DISCONNECT_PERIPHERAL,
                        EVENTS.CENTRAL_DID_DISCOVER_PERIPHERAL}
     THEN /\ cache' = peripheralEventCache(data.peripheral)
          /\ last' = EventStep(event, data, "ok",
                               peripheralEventInvoked(event, data.peripheral))
     ELSE IF event = EVENTS.CENTRAL_DID_UPDATE_STATE
     THEN /\ cache' = cache
          /\ last' = IF data.central = Absent
                     THEN EventStep(event, data, "CentralNotDefined", <<>>)
                     ELSE EventStep(event, data, stateResult(event, data.central),
                                    stateInvoked(event, data.central))
     ELSE IF event \in {EVENTS.CENTRAL_DID_RETRIEVE_CONNECTED_PERIPHERALS,
                        EVENTS.CENTRAL_DID_RETRIEVE_PERIPHERALS}
     THEN /\ cache' = cache
          /\ last' = EventStep(event, data, "ok", <<>>)
     ELSE IF event = EVENTS.ENABLE_BLUETOOTH
     THEN /\ cache' = cache
          /\ last' = EventStep(event, data, "ok",
                               fireMultiEventHandlers(event, [central |-> data.central]))
     ELSE /\ cache' = cache
          /\ last' = EventStep(event, data, "UnhandledEvent", unhandledInvoked(event))
  /\ stateObs' = IF event = EVENTS.CENTRAL_DID_UPDATE_STATE /\ data.central # Absent
                 THEN stateDelivered(stateInvoked(event, data.central))
                 ELSE stateObs
  /\ UNCHANGED <<unsupported, handlers, conn, scans, cancelled, unhandled, disc, load>>

----------------------------------------------------------------------------
(* observeStateAsync *)

\* An observeStateAsync call that is waiting for the native central.
ObserveCall(throws) ==
  [phase |-> "fetching", timer |-> "none", initial |-> "none", removed |-> FALSE,
   throws |-> throws, lastEvent |-> "none"]

\* observeStateAsync(callback) up to its suspension (line 127): getCentralAsync
\* checks the capability and asks the native side for the central.
observeStateAsync(throws) ==
  LET err == invariantAvailability("getCentralAsync") IN
  /\ err = "ok" => Len(stateObs) < MaxStateObservers
  /\ stateObs' = IF err = "ok" THEN Append(stateObs, ObserveCall(throws)) ELSE stateObs
  /\ last' = IF err = "ok"
             THEN Step("observeStateAsync", "", "pending",
                       <<Request("getCentralAsync", <<>>)>>, <<>>)
             ELSE Step("observeStateAsync", "", err, <<>>, <<>>)
  /\ UNCHANGED <<unsupported, handlers, cache, conn, scans, cancelled, unhandled, disc, load>>

\* Lines 128-130 once the central has arrived: the first delivery is left to
\* a timer, the callback is registered, the Subscription is returned.
observeSubscribed(k, central) ==
  [stateObs EXCEPT ![k] = [@ EXCEPT !.phase = "subscribed", !.timer = "pending",
                                    !.initial = central.state]]

centralResolves(k, central) ==
  /\ k \in 1..Len(stateObs)
  /\ stateObs[k].phase = "fetching"
  /\ stateObs' = observeSubscribed(k, central)
  /\ handlers' = addHandlerForKey(handlers, EVENTS.CENTRAL_DID_UPDATE_STATE,
                                  Handler("state", k))
  /\ last' = Step("observeStateAsync.then", "", "ok", <<>>, <<>>)
  /\ UNCHANGED <<unsupported, cache, conn, scans, cancelled, unhandled, disc, load>>

\* The native request fails: the await of line 127 throws, nothing is registered.
centralFails(k) ==
  /\ k \in 1..Len(stateObs)
  /\ stateObs[k].phase = "fetching"
  /\ stateObs' = [stateObs EXCEPT ![k].phase = "failed"]
  /\ last' = Step("observeStateAsync.then", "", "NativeFailure", <<>>, <<>>)
  /\ UNCHANGED <<unsupported, handlers, cache, conn, scans, cancelled, unhandled, disc, load>>

\* The timer callback of line 128: callback(central.state) with the central
\* fetched by this call. Nothing clears this timer.
stateTimerInvoked(k) == <<Invocation(Handler("state", k), stateObs[k].initial)>>

stateTimerFires(k) ==
  /\ k \in 1..Len(stateObs)
  /\ stateObs[k].timer = "pending"
  /\ stateObs' = [stateObs EXCEPT ![k].timer = "fired"]
  /\ last' = Step("stateTimer", "",
                  IF stateObs[k].throws THEN "HandlerFailure" ELSE "ok",
                  <<>>, stateTimerInvoked(k))
  /\ UNCHANGED <<unsupported, handlers, cache, conn, scans, cancelled, unhandled, disc, load>>

\* Subscription.remove() of the Subscription observeStateAsync returned.
removeStateSubscription(k) ==
  /\ k \in 1..Len(stateObs)
  /\ stateObs[k].phase = "subscribed"
  /\ stateObs' = [stateObs EXCEPT ![k].removed = TRUE]
  /\ handlers' = removeHandler(handlers, EVENTS.CENTRAL_DID_UPDATE_STATE,
                               Handler("state", k))
  /\ last' = Step("removeStateSubscription", "", "ok", <<>>, <<>>)
  /\ UNCHANGED <<unsupported, cache, conn, scans, cancelled, unhandled, disc, load>>

----------------------------------------------------------------------------
(* Recursive discovery *)

\* An id is a string: a sequence of UUIDs and delimiter characters.
DELIMINATOR == "|"
DiscoveryServices == {"S1", "S2"}
DiscoveryCharacteristics == {"C1"}
DiscoveryDescriptors == {"D1"}
UUIDs ==
  PeripheralIds \cup DiscoveryServices \cup DiscoveryCharacteristics
    \cup DiscoveryDescriptors

\* id.split(DELIMINATOR): the segments between the delimiters.
RECURSIVE split(_)
split(id) ==
  IF \E i \in 1..Len(id) : id[i] = DELIMINATOR
  THEN LET i == CHOOSE j \in 1..Len(id) :
                  /\ id[j] = DELIMINATOR
                  /\ \A k \in 1..(j - 1) : id[k] # DELIMINATOR
       IN <<SubSeq(id, 1, i - 1)>> \o split(SubSeq(id, i + 1, Len(id)))
  ELSE <<id>>

\* The id the native side gives a child: the parent's id, the delimiter and
\* the child's UUID.
childId(id, uuid) == id \o <<DELIMINATOR, uuid>>

\* Transaction.fromTransactionId(id): 1 to 4 segments, each one a UUID.
fromTransactionId(id) ==
  IF /\ Len(split(id)) \in 1..4
     /\ \A i \in 1..Len(split(id)) :
          Len(split(id)[i]) = 1 /\ split(id)[i][1] \in UUIDs
  THEN "ok"
  ELSE "MalformedAddress"

\* discover...Async up to its native request (lines 314-367): the capability
\* check, then the Transaction of the id.
discoverValidation(op, id) ==
  FirstFailure(<<invariantAvailability(op), fromTransactionId(id)>>)

NoError == [kind |-> "none", at |-> <<>>]
Failure(kind, id) == [kind |-> kind, at |-> id]

\* One call of _loadChildrenRecursivelyAsync: where it is, the native request
\* it issued, the child ids the native side returned, the error it threw.
NoTask == [phase |-> "none", req |-> "none", children |-> <<>>, error |-> NoError]

\* Variant: a characteristic id is sent to the service-level discovery.
discoverOpShifted(n) ==
  IF n = 3 THEN "discoverCharacteristicsForServiceAsync"
  ELSE IF n = 2 THEN "discoverServicesForPeripheralAsync"
  ELSE IF n = 1 THEN "discoverServicesForPeripheralAsync"
  ELSE "none"

\* The branch taken on components.length (lines 403-434).
discoverOp(n) ==
  IF n = 3 THEN "discoverDescriptorsForCharacteristicAsync"
  ELSE IF n = 2 THEN "discoverCharacteristicsForServiceAsync"
  ELSE IF n = 1 THEN "discoverServicesForPeripheralAsync"
  ELSE "none"

\* _loadChildrenRecursivelyAsync({id}) up to its first suspension.
startTask(id) ==
  LET n == Len(split(id)) IN
  IF discoverOp(n) = "none"
  THEN [NoTask EXCEPT !.phase = "rejected",
                      !.error = Failure("InvalidDiscoveryTarget", id)]
  ELSE IF discoverValidation(discoverOp(n), id) # "ok"
  THEN [NoTask EXCEPT !.phase = "rejected",
                      !.error = Failure(discoverValidation(discoverOp(n), id), id)]
  ELSE [NoTask EXCEPT !.phase = "request", !.req = discoverOp(n)]

\* The native requests issued by the calls started in one run.
RECURSIVE issuedBy(_, _)
issuedBy(tasks, ids) ==
  IF ids = <<>> THEN <<>>
  ELSE (IF tasks[Head(ids)].phase = "request"
        THEN <<Request(tasks[Head(ids)].req, Head(ids))>>
        ELSE <<>>) \o issuedBy(tasks, Tail(ids))

\* Variant: the descriptors of a characteristic are recursed into as well.
recurseIntoDescriptors(id, children) == children

\* The calls a call starts on the ids of a reply (lines 417-431): one per
\* service or characteristic; the descriptors of a characteristic are
\* returned as they are.
recurseInto(id, children) == IF Len(split(id)) = 3 THEN <<>> ELSE children

\* The caller of the call on a child id.
parentId(id) == SubSeq(id, 1, Len(id) - 2)

\* Variant: the aggregate waits for every call before it rejects.
promiseAllSettled(tasks, ids) ==
  IF \E i \in 1..Len(ids) : tasks[ids[i]].phase \in {"request", "join"} THEN "join"
  ELSE IF \E i \in 1..Len(ids) : tasks[ids[i]].phase = "rejected" THEN "rejected"
  ELSE "resolved"

\* Promise.all(calls) (lines 420, 431): rejected as soon as one of the calls
\* is rejected, resolved once all of them are.
promiseAll(tasks, ids) ==
  IF \E i \in 1..Len(ids) : tasks[ids[i]].phase = "rejected" THEN "rejected"
  ELSE IF \A i \in 1..Len(ids) : tasks[ids[i]].phase = "resolved" THEN "resolved"
  ELSE "join"

\* The error Promise.all rejects with: that of the call rejected first.
firstRejected(tasks, ids) ==
  IF \E i \in 1..Len(ids) : tasks[ids[i]].phase = "rejected"
  THEN tasks[ids[CHOOSE i \in 1..Len(ids) :
                    /\ tasks[ids[i]].phase = "rejected"
                    /\ \A j \in 1..(i - 1) : tasks[ids[j]].phase # "rejected"]].error
  ELSE NoError

\* A call waiting on Promise.all settles with it.
joined(tasks, id) ==
  LET ids == recurseInto(id, tasks[id].children) IN
  [tasks[id] EXCEPT !.phase = promiseAll(tasks, ids),
                    !.error = firstRejected(tasks, ids)]

\* The awaits of lines 418-431 up the chain of callers, once a call settled.
RECURSIVE settleUp(_, _, _)
settleUp(tasks, id, root) ==
  IF id = root \/ tasks[id].phase \in {"request", "join"} THEN tasks
  ELSE IF tasks[parentId(id)].phase # "join" THEN tasks
  ELSE settleUp([tasks EXCEPT ![parentId(id)] = joined(tasks, parentId(id))],
                parentId(id), root)

\* What the native side may return for an id: the UUIDs of its children.
Replies(id) ==
  IF Len(split(id)) = 1 THEN {<<>>, <<"S1">>, <<"S2">>, <<"S1", "S2">>}
  ELSE IF Len(split(id)) = 2 THEN {<<>>, <<"C1">>}
  ELSE {<<>>, <<"D1">>}

\* Ids given to _loadChildrenRecursivelyAsync by its callers.
RootIds ==
  {<<"P1">>, <<"P1", DELIMINATOR, "S1">>, <<"P1", DELIMINATOR, "S1", DELIMINATOR, "C1">>,
   <<"P1", DELIMINATOR, "S1", DELIMINATOR, "C1", DELIMINATOR, "D1">>,
   <<"P1", DELIMINATOR, "S1", DELIMINATOR, "C1", DELIMINATOR, "D1", DELIMINATOR, "D1">>,
   <<>>, <<"P1", DELIMINATOR>>, <<BadId>>}

\* Ids of the nodes below P1.
TreeIds ==
  LET d1 == {<<"P1">>}
      d2 == {childId(x, u) : x \in d1, u \in DiscoveryServices}
      d3 == {childId(x, u) : x \in d2, u \in DiscoveryCharacteristics}
      d4 == {childId(x, u) : x \in d3, u \in DiscoveryDescriptors}
  IN d1 \cup d2 \cup d3 \cup d4

DiscoveryIds == RootIds \cup TreeIds

NoRoot == <<"none">>
NoDiscovery ==
  [root |-> NoRoot, tasks |-> [x \in DiscoveryIds |-> NoTask], first |-> NoError]

\* _loadChildrenRecursivelyAsync({id}) called from outside (line 400).
loadChildrenRecursively(id) ==
  [root |-> id,
   tasks |-> [x \in DiscoveryIds |-> IF x = id THEN startTask(id) ELSE NoTask],
   first |-> startTask(id).error]

\* The continuation of a call once its native request resolved (lines 416,
\* 420, 431): the calls on the children are started in order, then awaited.
discoveryResolved(id, uuids) ==
  LET children == [i \in 1..Len(uuids) |-> childId(id, uuids[i])]
      started == [x \in DiscoveryIds |->
                    IF x \in Range(recurseInto(id, children))
                    THEN startTask(x) ELSE disc.tasks[x]]
      awaiting == [started EXCEPT ![id] = [@ EXCEPT !.phase = "join",
                                                    !.children = children]]
      settled == [awaiting EXCEPT ![id] = joined(awaiting, id)]
  IN [disc EXCEPT !.tasks = settleUp(settled, id, disc.root),
                  !.first = IF disc.first = NoError
                            THEN firstRejected(started, recurseInto(id, children))
                            ELSE disc.first]

\* The native request of a call rejects: the await of the call throws.
discoveryRejected(id) ==
  LET failed == [disc.tasks EXCEPT ![id] =
                    [@ EXCEPT !.phase = "rejected",
                              !.error = Failure("NativeFailure", id)]]
  IN [disc EXCEPT !.tasks = settleUp(failed, id, disc.root),
                  !.first = IF disc.first = NoError
                            THEN Failure("NativeFailure", id) ELSE disc.first]

----------------------------------------------------------------------------
(* loadPeripheralAsync *)

\* peripheralIdFromId(id): the first segment of the id.
peripheralIdFromId(id) ==
  LET first == Head(split(id)) IN IF Len(first) = 1 THEN first[1] ELSE ""

\* getPeripherals()[peripheralId]: undefined for an id the cache does not hold.
getPeripheral(peripheralId) ==
  IF peripheralId \in PeripheralIds THEN cache[peripheralId] ELSE Absent

\* A loadPeripheralAsync call: where it is, the connectAsync call it awaits,
\* the native connects it issued, its re-entries, whether it called the
\* recursive discovery, the branch it took last and the cache entry it took
\* it on, and what it returned or threw.
NoLoad ==
  [phase |-> "none", id |-> "", call |-> 0, connects |-> 0, reentries |-> 0,
   discovered |-> FALSE, branch |-> "none", seen |-> Absent, result |-> Absent,
   error |-> "none"]

\* Variant: the re-entry is allowed to connect again.
rerunConnectsAgain == FALSE

\* The skipConnecting argument of the re-entry (line 385).
rerunSkipConnecting == TRUE

\* The branch of lines 375-393.
loadBranch(peripheral, skipConnecting) ==
  IF peripheral = Absent THEN "throw"
  ELSE IF peripheral.state # "connected"
  THEN IF ~skipConnecting THEN "connect" ELSE "return"
  ELSE "discover"

\* connectAsync(peripheralId, {onDisconnect}) of lines 379-383: no timeout.
loadConnectCall(peripheralId) ==
  [id |-> peripheralId, onDisconnect |-> TRUE, timer |-> connectTimer(FALSE),
   native |-> "pending", first |-> "none", outcome |-> "pending", disc |-> <<>>]

\* One run of the body of loadPeripheralAsync (lines 373-397) up to its
\* suspension or its end, with the connectAsync calls as they are by then.
loadRun(call, calls, peripheralId, skipConnecting) ==
  LET peripheral == getPeripheral(peripheralId)
      branch == loadBranch(peripheral, skipConnecting)
      taken == [call EXCEPT !.id = peripheralId, !.branch = branch,
                            !.seen = peripheral]
      err == connectValidation(peripheralId)
      c == Len(calls) + 1
      started == loadChildrenRecursively(<<peripheralId>>)
      same == [load |-> taken, handlers |-> handlers, conn |-> calls, disc |-> disc,
               issued |-> <<>>]
  IN IF branch = "throw"
     THEN [same EXCEPT !.load = [taken EXCEPT !.phase = "rejected",
                                              !.error = "UnknownPeripheral"]]
     ELSE IF branch = "connect" /\ err # "ok"
     THEN [same EXCEPT !.load = [taken EXCEPT !.phase = "rejected", !.error = err]]
     ELSE IF branch = "connect"
     THEN [same EXCEPT
             !.load = [taken EXCEPT !.phase = "connecting", !.call = c,
                                    !.connects = @ + 1],
             !.handlers = connectRegister(err, Handler("onDisconnect", c), TRUE),
             !.conn = Append(calls, loadConnectCall(peripheralId)),
             !.issued = <<Request("connectPeripheralAsync", peripheralId)>>]
     ELSE IF branch = "return"
     THEN [same EXCEPT !.load = [taken EXCEPT !.phase = "resolved",
                                              !.result = peripheral]]
     ELSE [same EXCEPT
             !.load = IF started.tasks[<<peripheralId>>].phase = "rejected"
                      THEN [taken EXCEPT !.phase = "rejected", !.discovered = TRUE,
                                         !.error = started.first.kind]
                      ELSE [taken EXCEPT !.phase = "discovering", !.discovered = TRUE],
             !.disc = started,
             !.issued = issuedBy(started.tasks, <<<<peripheralId>>>>)]

\* The await of line 379 once connectAsync call c has settled: the re-entry
\* of line 385 when it resolved, its error when it rejected.
loadAwaitConnect(calls, c) ==
  IF load.phase = "connecting" /\ load.call = c
  THEN IF calls[c].outcome = "Resolved"
       THEN loadRun([load EXCEPT !.reentries = @ + 1], calls, calls[c].id,
                    rerunSkipConnecting)
       ELSE [load |-> [load EXCEPT !.phase = "rejected", !.error = calls[c].outcome],
             handlers |-> handlers, conn |-> calls, disc |-> disc, issued |-> <<>>]
  ELSE [load |-> load, handlers |-> handlers, conn |-> calls, disc |-> disc,
        issued |-> <<>>]

\* The await of line 392 once the discovery has settled, then line 397.
loadAwaitDiscovery(d) ==
  IF load.phase = "discovering" /\ d.root = <<load.id>>
  THEN IF d.tasks[d.root].phase = "resolved"
       THEN [load EXCEPT !.phase = "resolved", !.result = getPeripheral(load.id)]
       ELSE IF d.tasks[d.root].phase = "rejected"
       THEN [load EXCEPT !.phase = "rejected", !.error = d.tasks[d.root].error.kind]
       ELSE load
  ELSE load

\* loadPeripheralAsync({id}) called from outside (line 369).
loadPeripheralAsync(id) ==
  LET run == loadRun(NoLoad, conn, peripheralIdFromId(id), FALSE) IN
  /\ load.phase \notin {"connecting", "discovering"}
  /\ \A x \in DiscoveryIds : disc.tasks[x].phase # "request"
  /\ Len(run.conn) <= MaxCalls
  /\ load' = run.load
  /\ handlers' = run.handlers
  /\ conn' = run.conn
  /\ disc' = run.disc
  /\ last' = IdStep("loadPeripheralAsync", id,
                  IF run.load.phase = "rejected" THEN run.load.error ELSE "pending",
                  run.issued)
  /\ UNCHANGED <<unsupported, cache, scans, cancelled, unhandled, stateObs>>

\* The native connect of call c settles: the continuation of connectAsync,
\* then that of the loadPeripheralAsync call awaiting it, if there is one.
nativeConnectResolves(c) ==
  /\ c \in 1..Len(conn)
  /\ conn[c].native = "pending"
  /\ LET run == loadAwaitConnect([conn EXCEPT ![c] = connectResolved(@)], c)
     IN /\ conn' = run.conn
        /\ handlers' = run.handlers
        /\ disc' = run.disc
        /\ load' = run.load
        /\ last' = Step("connectResolved", conn[c].id, conn'[c].outcome, run.issued, <<>>)
  /\ UNCHANGED <<unsupported, cache, scans, cancelled, unhandled, stateObs>>

nativeConnectFails(c) ==
  /\ c \in 1..Len(conn)
  /\ conn[c].native = "pending"
  /\ LET run == loadAwaitConnect([conn EXCEPT ![c] = connectFailed(@)], c)
     IN /\ conn' = run.conn
        /\ handlers' = run.handlers
        /\ disc' = run.disc
        /\ load' = run.load
        /\ last' = Step("connectFailed", conn[c].id, conn'[c].outcome, run.issued, <<>>)
  /\ UNCHANGED <<unsupported, cache, scans, cancelled, unhandled, stateObs>>

----------------------------------------------------------------------------
(* Discovery calls and their native requests *)

loadChildrenRecursivelyAsync(id) ==
  /\ \A x \in DiscoveryIds : disc.tasks[x].phase # "request"
  /\ disc' = loadChildrenRecursively(id)
  /\ last' = IdStep("_loadChildrenRecursivelyAsync", id,
                  IF startTask(id).phase = "rejected"
                  THEN startTask(id).error.kind ELSE "pending",
                  issuedBy(disc'.tasks, <<id>>))
  /\ UNCHANGED <<unsupported, handlers, cache, conn, scans, cancelled, unhandled,
                 stateObs, load>>

nativeDiscoveryResolves(id, uuids) ==
  /\ disc.tasks[id].phase = "request"
  /\ uuids \in Replies(id)
  /\ disc' = discoveryResolved(id, uuids)
  /\ last' = IdStep("discovery.then", id, disc'.tasks[id].phase,
                  issuedBy(disc'.tasks,
                           recurseInto(id, [i \in 1..Len(uuids) |->
                                                 childId(id, uuids[i])])))
  /\ load' = loadAwaitDiscovery(disc')
  /\ UNCHANGED <<unsupported, handlers, cache, conn, scans, cancelled, unhandled,
                 stateObs>>

nativeDiscoveryFails(id) ==
  /\ disc.tasks[id].phase = "request"
  /\ disc' = discoveryRejected(id)
  /\ last' = IdStep("discovery.catch", id, "NativeFailure", <<>>)
  /\ load' = loadAwaitDiscovery(disc')
  /\ UNCHANGED <<unsupported, handlers, cache, conn, scans, cancelled, unhandled,
                 stateObs>>

----------------------------------------------------------------------------
(* Specifications *)

ConnectOps ==
  {"connectPeripheralAsync", "disconnectPeripheralAsync", "readRSSIAsync",
   "startScanningAsync"}

InitState ==
  /\ handlers = [k \in Keys |-> <<>>]
  /\ cache = [p \in PeripheralIds |-> Absent]
  /\ conn = <<>>
  /\ scans = 0
  /\ cancelled = {}
  /\ unhandled = {}
  /\ stateObs = <<>>
  /\ disc = NoDiscovery
  /\ load = NoLoad
  /\ last = Step("init", "", "ok", <<>>, <<>>)

Init ==
  /\ unsupported \in SUBSET ConnectOps
  /\ InitState

Next ==
  \/ \E id \in InputIds, timeout \in BOOLEAN, onDisconnect \in BOOLEAN :
       connectAsync(id, timeout, onDisconnect)
  \/ \E c \in 1..MaxCalls : connectTimerFires(c)
  \/ \E c \in 1..MaxCalls : nativeConnectResolves(c)
  \/ \E c \in 1..MaxCalls : nativeConnectFails(c)
  \/ \E c \in 1..MaxCalls, ok \in BOOLEAN : cleanupDisconnectSettles(c, ok)
  \/ \E id \in InputIds : disconnectAsync(id)
  \/ \E id \in InputIds : readRSSIAsync(id)
  \/ \E f \in ScanFilters : startScan(f)

Spec == Init /\ [][Next]_vars

\* Scanning, topology observers and the push channel.
ScanOps == {"startScanningAsync", "stopScanningAsync"}

InitEvents ==
  /\ unsupported \in SUBSET ScanOps
  /\ InitState

NextEvents ==
  \/ \E f \in ScanFilters : startScan(f)
  \/ \E s \in 1..MaxScans : cancelScan(s)
  \/ stopScanAsync
  \/ observeUpdates
  \/ \E e \in NativeEvents : onNativeEvent(e.event, e.data)

SpecEvents == InitEvents /\ [][NextEvents]_vars

\* The operations that only check and forward.
PassThroughOps ==
  {"readDescriptorAsync", "writeDescriptorAsync", "setNotifyCharacteristicAsync",
   "readCharacteristicAsync", "writeCharacteristicAsync", "getPeripheralsAsync",
   "getCentralAsync", "getConnectedPeripheralsAsync", "readRSSIAsync",
   "disconnectPeripheralAsync"}

Addresses == {<<"P1", "S1", "C1", "D1">>, <<"P2", "S1", "C1", "D1">>}

InitOps ==
  /\ unsupported \in SUBSET PassThroughOps
  /\ InitState

NextOps ==
  \/ \E a \in Addresses : readDescriptorAsync(a)
  \/ \E a \in Addresses : writeDescriptorAsync(a)
  \/ \E a \in Addresses : shouldNotifyDescriptorAsync(a)
  \/ \E a \in Addresses : readCharacteristicAsync(a)
  \/ \E a \in Addresses : writeCharacteristicAsync(a)
  \/ \E a \in Addresses : writeCharacteristicWithoutResponseAsync(a)
  \/ getPeripheralsAsync
  \/ getCentralAsync
  \/ getConnectedPeripheralsAsync
  \/ \E id \in InputIds : disconnectAsync(id)
  \/ \E id \in InputIds : readRSSIAsync(id)

SpecOps == InitOps /\ [][NextOps]_vars

\* State observers and the state events of the push channel.
StateEvents ==
  [event : {EVENTS.CENTRAL_DID_UPDATE_STATE},
   data : {[NoData EXCEPT !.central = c] : c \in Centrals \cup {Absent}}]

InitObserve ==
  /\ unsupported \in SUBSET {"getCentralAsync"}
  /\ InitState

NextObserve ==
  \/ \E throws \in BOOLEAN : observeStateAsync(throws)
  \/ \E k \in 1..MaxStateObservers, c \in Centrals : centralResolves(k, c)
  \/ \E k \in 1..MaxStateObservers : centralFails(k)
  \/ \E k \in 1..MaxStateObservers : stateTimerFires(k)
  \/ \E k \in 1..MaxStateObservers : removeStateSubscription(k)
  \/ \E e \in StateEvents : onNativeEvent(e.event, e.data)

SpecObserve == InitObserve /\ [][NextObserve]_vars

\* Recursive discovery and its native requests.
DiscoveryOps ==
  {"discoverServicesForPeripheralAsync", "discoverCharacteristicsForServiceAsync",
   "discoverDescriptorsForCharacteristicAsync"}

InitDiscovery ==
  /\ unsupported \in SUBSET DiscoveryOps
  /\ InitState

NextDiscovery ==
  \/ \E id \in RootIds : loadChildrenRecursivelyAsync(id)
  \/ \E id \in DiscoveryIds : \E uuids \in Replies(id) :
       nativeDiscoveryResolves(id, uuids)
  \/ \E id \in DiscoveryIds : nativeDiscoveryFails(id)

SpecDiscovery == InitDiscovery /\ [][NextDiscovery]_vars

\* Every native discovery request is answered in the end.
NativeDiscoverySettles ==
  \E id \in DiscoveryIds :
    \/ nativeDiscoveryFails(id)
    \/ \E uuids \in Replies(id) : nativeDiscoveryResolves(id, uuids)

SpecDiscoveryFair == SpecDiscovery /\ WF_vars(NativeDiscoverySettles)

\* loadPeripheralAsync with the connect, the discovery and the cache updates
\* it depends on.
LoadOps == {"connectPeripheralAsync", "discoverServicesForPeripheralAsync"}

LoadIds == {<<"P1">>, <<"P2">>, <<"P1", DELIMINATOR, "S1">>}

\* UPDATE events that list P1 alone, without services, or nothing.
LoadEvents ==
  {e \in NativeEvents :
     /\ e.event = "UPDATE"
     /\ e.data.peripherals # Absent
     /\ \A i \in 1..Len(e.data.peripherals.list) :
          /\ e.data.peripherals.list[i].id = "P1"
          /\ e.data.peripherals.list[i].services = {}}

InitLoad ==
  /\ unsupported \in SUBSET LoadOps
  /\ InitState

NextLoad ==
  \/ \E id \in LoadIds : loadPeripheralAsync(id)
  \/ \E c \in 1..MaxCalls : nativeConnectResolves(c)
  \/ \E c \in 1..MaxCalls : nativeConnectFails(c)
  \/ \E id \in DiscoveryIds : \E uuids \in Replies(id) :
       nativeDiscoveryResolves(id, uuids)
  \/ \E id \in DiscoveryIds : nativeDiscoveryFails(id)
  \/ \E e \in LoadEvents : onNativeEvent(e.event, e.data)

SpecLoad == InitLoad /\ [][NextLoad]_vars

\* Scans ended by their cancel closures only, and the discovery events.
DiscoverEvents ==
  {e \in NativeEvents : e.event = EVENTS.CENTRAL_DID_DISCOVER_PERIPHERAL}

InitCancel ==
  /\ unsupported \in SUBSET ScanOps
  /\ InitState

NextCancel ==
  \/ \E f \in ScanFilters : startScan(f)
  \/ \E s \in 1..MaxScans : cancelScan(s)
  \/ \E e \in DiscoverEvents : onNativeEvent(e.event, e.data)

SpecCancel == InitCancel /\ [][NextCancel]_vars

----------------------------------------------------------------------------
(* Properties *)

Calls == 1..Len(conn)

NativeIssued(st) == st \in {"pending", "resolved", "NativeFailure"}

C2_TimerReleasedOnSettlement ==
  \A c \in Calls :
    /\ conn[c].outcome # "pending" => conn[c].timer # "pending"
    /\ conn[c].first \in {"resolved", "failed"} =>
         /\ conn[c].timer \in {"none", "cleared"}
         /\ conn[c].disc = <<>>

C2_Witness ==
  \E c \in Calls :
    /\ conn[c].first = "resolved"
    /\ conn[c].timer = "cleared"
    /\ conn[c].outcome = "Resolved"

\* C3: once the timer has expired the caller observes ConnectTimeout and a
\* failure of the cleanup disconnect surfaces nowhere: the call leaves no
\* unhandled rejection.
C3_CleanupFailureSwallowed ==
  \A c \in Calls :
    conn[c].first = "expired" =>
      /\ conn[c].outcome = "ConnectTimeout"
      /\ ~ \E u \in unhandled : u.call = c

\* C4: the outcome of a connectAsync call is, at every moment, the one of
\* whichever happened first among native success, native failure and timer
\* expiry (and pending while none has happened): later events never change
\* it, and a native failure that comes first is what the caller receives.
OutcomeOfFirst(first) ==
  CASE first = "none" -> "pending"
    [] first = "resolved" -> "Resolved"
    [] first = "failed" -> "NativeFailure"
    [] first = "expired" -> "ConnectTimeout"

C4_SettlesOnceWithFirstOutcome ==
  \A c \in Calls : conn[c].outcome = OutcomeOfFirst(conn[c].first)

C4_Witness ==
  \E c \in Calls :
    \/ conn[c].first = "expired" /\ conn[c].native = "failed"
    \/ conn[c].first = "failed" /\ conn[c].timer = "cleared"

\* C5: no public operation issues a native request for an operation the
\* availability predicate reports unsupported.
C5_AvailabilityCheckedFirst ==
  \A i \in 1..Len(last.issued) : last.issued[i].op \notin unsupported

\* C6: startScan, connectAsync, disconnectAsync and readRSSIAsync fail
\* validation exactly when the capability is unsupported or the peripheral id
\* is malformed, and a run that fails validation issues no native request and
\* changes neither the handler registry, the connect calls and their timers,
\* the scans, nor the topology cache.
ValidatedOps ==
  [startScan |-> "startScanningAsync", connectAsync |-> "connectPeripheralAsync",
   disconnectAsync |-> "disconnectPeripheralAsync", readRSSIAsync |-> "readRSSIAsync"]

MustFailValidation(step) ==
  \/ ValidatedOps[step.op] \in unsupported
  \/ step.op # "startScan" /\ step.id \notin PeripheralIds

C6_ValidationStep ==
  last'.op \in DOMAIN ValidatedOps =>
    /\ last'.result \in ValidationErrors <=> MustFailValidation(last')
    /\ last'.result \in ValidationErrors =>
         /\ last'.issued = <<>>
         /\ UNCHANGED <<handlers, conn, scans, cancelled, cache, unhandled>>

C6_ValidationFailureChangesNothing == [][C6_ValidationStep]_vars

C6_Witness ==
  /\ last.op = "connectAsync"
  /\ last.id = BadId
  /\ last.result = "MalformedAddress"
  /\ scans > 0

\* C7 as stated: every peripheral-discovered event invokes the callback of
\* every scan that has not been cancelled exactly once with the event's
\* peripheral and never the callback of a cancelled scan, and calling a cancel
\* closure issues a native stop scan.
ScanDeliveries(s) ==
  Count(last.invoked, Invocation(Handler("scan", s), last.data.peripheral))

IsDiscoverEvent ==
  last.op = "event" /\ last.id = EVENTS.CENTRAL_DID_DISCOVER_PERIPHERAL

StopIssued == Request("stopScanningAsync", <<>>) \in Range(last.issued)

C7_Original ==
  /\ IsDiscoverEvent =>
       \A s \in 1..scans : ScanDeliveries(s) = IF s \in cancelled THEN 0 ELSE 1
  /\ last.op = "cancelScan" => StopIssued

\* C7 as amended: a peripheral-discovered event invokes the callback of every
\* scan whose handler is still registered exactly once with the event's
\* peripheral and no other scan callback; the handler of a cancelled scan is
\* never registered, so its callback gets no later event; calling a cancel
\* closure issues a native stop scan when stopScanningAsync is supported and
\* fails with UnavailableCapability, issuing nothing, when it is not.
C7_ScanDelivery ==
  /\ \A s \in cancelled :
       Handler("scan", s) \notin Range(handlers[EVENTS.CENTRAL_DID_DISCOVER_PERIPHERAL])
  /\ IsDiscoverEvent =>
       \A s \in 1..scans :
         /\ ScanDeliveries(s) =
              IF Handler("scan", s) \in Range(handlers[EVENTS.CENTRAL_DID_DISCOVER_PERIPHERAL])
              THEN 1 ELSE 0
         /\ Count([i \in 1..Len(last.invoked) |-> last.invoked[i].h], Handler("scan", s))
              = ScanDeliveries(s)
  /\ last.op = "cancelScan" =>
       IF "stopScanningAsync" \in unsupported
       THEN last.result = "UnavailableCapability" /\ last.issued = <<>>
       ELSE last.result = "ok" /\ StopIssued

C7_Witness ==
  /\ IsDiscoverEvent
  /\ last.data.peripheral # Absent
  /\ \E s \in cancelled : ScanDeliveries(s) = 0
  /\ \E s \in 1..scans : ScanDeliveries(s) = 1

\* C8: after an UPDATE event the cache holds exactly the peripherals of its
\* list (nothing when it carries no list), and every topology observer has
\* been notified exactly once, with the cache as replaced.
IsUpdateEvent == last.op = "event" /\ last.id = "UPDATE"

UpdateList ==
  IF last.data.peripherals = Absent THEN <<>> ELSE last.data.peripherals.list

C8_UpdateReplacesCache ==
  IsUpdateEvent =>
    /\ \A p \in PeripheralIds :
         IF \E i \in 1..Len(UpdateList) : UpdateList[i].id = p
         THEN \E i \in 1..Len(UpdateList) : UpdateList[i].id = p /\ cache[p] = UpdateList[i]
         ELSE cache[p] = Absent
    /\ Len(last.invoked) = Len(handlers["everything"])
    /\ \A i \in 1..Len(last.invoked) :
         last.invoked[i] =
           Invocation(handlers["everything"][i], [peripherals |-> cache])

C8_Witness ==
  /\ IsUpdateEvent
  /\ Len(UpdateList) = 1
  /\ UpdateList[1].id = "P1"
  /\ cache["P2"] = Absent
  /\ Len(last.invoked) = 1

\* C9: after a peripheral-discovered or peripheral-disconnected event that
\* carries a peripheral record, the cache returns that record merged in, and
\* every handler registered under the event kind has been invoked.
C9_PeripheralEventMerged ==
  (/\ last.op = "event"
   /\ last.id \in {EVENTS.CENTRAL_DID_DISCOVER_PERIPHERAL,
                   EVENTS.CENTRAL_DID_DISCONNECT_PERIPHERAL}
   /\ last.data.peripheral # Absent) =>
    /\ cache[last.data.peripheral.id] # Absent
    /\ cache[last.data.peripheral.id].state = last.data.peripheral.state
    /\ last.data.peripheral.services \subseteq cache[last.data.peripheral.id].services
    /\ \A h \in Range(handlers[last.id]) :
         \E i \in 1..Len(last.invoked) : last.invoked[i].h = h

\* C10: an event of an unrecognized kind fails with UnhandledEvent, invokes
\* no handler and no observer, and leaves the cache and the handler registry
\* as they were.
RecognizedEvents == {"UPDATE"} \cup {EVENTS[k] : k \in DOMAIN EVENTS}

C10_UnhandledStep ==
  (last'.op = "event" /\ last'.id \notin RecognizedEvents) =>
    /\ last'.result = "UnhandledEvent"
    /\ last'.invoked = <<>>
    /\ UNCHANGED <<cache, handlers>>

C10_UnhandledEventIsInert == [][C10_UnhandledStep]_vars

C10_Witness ==
  /\ last.op = "event"
  /\ last.id \in UnknownEvents
  /\ handlers["everything"] # <<>>
  /\ handlers[EVENTS.CENTRAL_DID_DISCOVER_PERIPHERAL] # <<>>
  /\ \E p \in PeripheralIds : cache[p] # Absent

\* A state-change event that carries a central has just been processed.
IsStateEvent ==
  /\ last.op = "event"
  /\ last.id = EVENTS.CENTRAL_DID_UPDATE_STATE
  /\ last.data.central # Absent

StateHandlers == handlers[EVENTS.CENTRAL_DID_UPDATE_STATE]

\* C11: a state-change event is delivered to every handler registered under
\* the state-change key, in registration order, each given the new central
\* state, whether or not a handler before it failed.
C11_StateEventReachesEveryHandler ==
  IsStateEvent =>
    last.invoked = [i \in 1..Len(StateHandlers) |->
                      Invocation(StateHandlers[i], last.data.central.state)]

\* The callbacks the last run invoked that belong to observeStateAsync calls.
StateCallbacksInvoked ==
  {last.invoked[i].h.n : i \in {j \in 1..Len(last.invoked) :
                                   last.invoked[j].h.kind = "state"}}

\* C12: the callback of observeStateAsync is never invoked before the
\* Subscription was returned, and it is given every state-change event that
\* is processed while its Subscription is held and not removed.
C12_SubscribedBeforeFirstDelivery ==
  /\ \A k \in StateCallbacksInvoked : stateObs[k].phase = "subscribed"
  /\ IsStateEvent =>
       \A k \in 1..Len(stateObs) :
         (stateObs[k].phase = "subscribed" /\ ~stateObs[k].removed) =>
           \E i \in 1..Len(last.invoked) :
             last.invoked[i] = Invocation(Handler("state", k),
                                          last.data.central.state)

\* C17: when the timer delivers the state fetched at subscription time, the
\* callback has not yet been given any state-change event.
C17_InitialDeliveryComesFirst ==
  last.op = "stateTimer" =>
    \A k \in StateCallbacksInvoked : stateObs[k].lastEvent = "none"

\* C18: a callback whose Subscription has been removed is not invoked.
C18_NoDeliveryAfterRemoval ==
  \A k \in StateCallbacksInvoked : ~stateObs[k].removed

\* The discovery call made on an id, once it has been made.
Task(id) == disc.tasks[id]
Depth(id) == Len(split(id))
Started == {x \in DiscoveryIds : Task(x).phase # "none"}
Outstanding == {x \in DiscoveryIds : Task(x).phase = "request"}
\* The call the discovery was started with.
RootTask == IF disc.root = NoRoot THEN NoTask ELSE Task(disc.root)

\* The request the specification names for an id of n components.
RequestForDepth(n) ==
  IF n = 1 THEN "discoverServicesForPeripheralAsync"
  ELSE IF n = 2 THEN "discoverCharacteristicsForServiceAsync"
  ELSE "discoverDescriptorsForCharacteristicAsync"

\* C13: the native request of a discovery call is decided by the number of
\* components of its id: discover services for 1, discover characteristics
\* for 2, discover descriptors for 3, after which no call is made on the
\* descriptors returned; a call on an id of 4 or more components fails with
\* InvalidDiscoveryTarget and issues no native request.
C13_DispatchOnComponentCount ==
  \A x \in Started :
    /\ Depth(x) \in 1..3 =>
         IF discoverValidation(RequestForDepth(Depth(x)), x) = "ok"
         THEN Task(x).req = RequestForDepth(Depth(x))
         ELSE Task(x).req = "none" /\ Task(x).phase = "rejected"
    /\ Depth(x) = 3 =>
         \A i \in 1..Len(Task(x).children) : Task(x).children[i] \notin Started
    /\ Depth(x) >= 4 =>
         /\ Task(x).phase = "rejected"
         /\ Task(x).error = Failure("InvalidDiscoveryTarget", x)
         /\ Task(x).req = "none"
         /\ (last.op = "_loadChildrenRecursivelyAsync" /\ last.data = x) =>
              last.issued = <<>>

C13_Witness ==
  /\ Depth(disc.root) = 1
  /\ RootTask.phase = "resolved"
  /\ \E x \in Started :
       /\ Depth(x) = 3
       /\ Task(x).req = "discoverDescriptorsForCharacteristicAsync"
       /\ Task(x).children # <<>>
  /\ \E x \in Started : Depth(x) = 2 /\ Task(x).req # "none"

\* C13, the descriptor case: a call on a 4-component id has just failed.
C13_WitnessDescriptor ==
  /\ Depth(disc.root) = 4
  /\ last.op = "_loadChildrenRecursivelyAsync"
  /\ last.result = "InvalidDiscoveryTarget"

\* C14: from the first rejection anywhere in the fan-out onwards, the
\* discovery call is rejected with that failure, whatever the calls still
\* pending do afterwards.
C14_FailFast ==
  disc.first # NoError =>
    /\ RootTask.phase = "rejected"
    /\ RootTask.error = disc.first

\* A sibling request resolved after another request had failed: the failure
\* surfaced is still the first one.
C14_Witness ==
  /\ RootTask.phase = "rejected"
  /\ disc.first.kind = "NativeFailure"
  /\ disc.first.at # disc.root
  /\ last.op = "discovery.then"
  /\ last.data # disc.first.at
  /\ Outstanding # {}

\* The UUIDs the native side returned for the children of an id.
Returned(id) ==
  {u \in UUIDs : \E i \in 1..Len(Task(id).children) :
                   Task(id).children[i] = childId(id, u)}

ServiceId(s) == childId(<<"P1">>, s)

\* C15: when the discovery of P1 is rejected because the characteristic
\* discovery of S2 failed, and that of S1 had resolved, the cache entry of P1
\* holds the characteristics returned for S1.
C15_PartialResultsStayVisible ==
  (/\ disc.root = <<"P1">>
   /\ RootTask.phase = "rejected"
   /\ Task(ServiceId("S2")).error = Failure("NativeFailure", ServiceId("S2"))
   /\ Returned(ServiceId("S1")) # {}) =>
    /\ cache["P1"] # Absent
    /\ \A c \in Returned(ServiceId("S1")) : <<"S1", c>> \in cache["P1"].characteristics

\* C16: once the service discovery of P1 has resolved with a service, the
\* cache entry of P1 has that service among its services.
C16_ResolvedServicesMerged ==
  \A s \in Returned(<<"P1">>) :
    /\ cache["P1"] # Absent
    /\ s \in cache["P1"].services

\* Of the discovery of P1: one call per node returned, each with the request
\* of its depth, none on a descriptor, and the call resolved once nothing is
\* pending.
ExactRequests ==
  /\ \A x \in Started :
       /\ Depth(x) <= 3
       /\ Task(x).req = RequestForDepth(Depth(x))
       /\ x # disc.root =>
            /\ parentId(x) \in Started
            /\ \E i \in 1..Len(Task(parentId(x)).children) :
                 Task(parentId(x)).children[i] = x
       /\ (Depth(x) <= 2 /\ Task(x).phase # "request") =>
            \A i \in 1..Len(Task(x).children) : Task(x).children[i] \in Started
  /\ Outstanding = {} => RootTask.phase = "resolved"

\* C19 as stated: when no native discovery request has failed, a discovery
\* started at a peripheral id issues one discover-services request, one
\* discover-characteristics request per service returned, one
\* discover-descriptors request per characteristic returned, none on a
\* descriptor, and has ended once no request is pending.
C19_Original ==
  (disc.root = <<"P1">> /\ disc.first.kind # "NativeFailure") => ExactRequests

C19_ExactRequests ==
  (/\ disc.root = <<"P1">>
   /\ unsupported \cap DiscoveryOps = {}
   /\ disc.first.kind # "NativeFailure") => ExactRequests

\* C19, with the capabilities required: when the three discovery
\* capabilities are available, every native request is answered and the ids
\* returned are one component longer than their parent's, a discovery started
\* at a peripheral id comes to an end, having issued one discover-services
\* request, one discover-characteristics request per service returned and
\* one discover-descriptors request per characteristic returned, and none on
\* a descriptor.
C19_DiscoveryTerminates == []C19_ExactRequests /\ []<>(Outstanding = {})

C19_Witness ==
  /\ disc.root = <<"P1">>
  /\ RootTask.phase = "resolved"
  /\ Returned(<<"P1">>) = DiscoveryServices
  /\ \A s \in DiscoveryServices :
       /\ Returned(ServiceId(s)) = DiscoveryCharacteristics
       /\ \A c \in DiscoveryCharacteristics :
            Returned(childId(ServiceId(s), c)) = DiscoveryDescriptors

C20_WitnessDiscovery ==
  /\ load.reentries = 1
  /\ load.discovered
  /\ load.phase = "resolved"

DiscoverHandlers == handlers[EVENTS.CENTRAL_DID_DISCOVER_PERIPHERAL]

\* C21 as stated: with the scans ended by their cancel closures only, a
\* peripheral-discovered event invokes the callback of every scan whose own
\* cancel closure has not been called, once, and of no other scan.
C21_Original ==
  (IsDiscoverEvent /\ last.data.peripheral # Absent) =>
    \A s \in 1..scans : ScanDeliveries(s) = IF s \in cancelled THEN 0 ELSE 1

\* A call of a cancel closure: with stopScanningAsync available it leaves no
\* scan callback registered, its own or another scan's; without it, it
\* removes the callback of its own scan only and fails.
C21_CancelStep ==
  last'.op = "cancelScan" =>
    /\ \A k \in Keys \ {EVENTS.CENTRAL_DID_DISCOVER_PERIPHERAL} :
         handlers'[k] = handlers[k]
    /\ IF "stopScanningAsync" \in unsupported
       THEN /\ last'.result = "UnavailableCapability"
            /\ \E s \in 1..scans :
                 handlers' = removeHandler(handlers, EVENTS.CENTRAL_DID_DISCOVER_PERIPHERAL,
                                           Handler("scan", s))
       ELSE /\ last'.result = "ok"
            /\ handlers'[EVENTS.CENTRAL_DID_DISCOVER_PERIPHERAL] = <<>>

\* A peripheral-discovered event invokes the callbacks of the scans still
\* registered, each once.
C21_DeliveryStep ==
  (IsDiscoverEvent /\ last.data.peripheral # Absent)' =>
    \A s \in 1..scans :
      ScanDeliveries(s)' = IF Handler("scan", s) \in Range(DiscoverHandlers) THEN 1 ELSE 0

\* C21 as amended: calling the cancel closure of one scan removes the
\* callbacks of all scans started so far when stopScanningAsync is available,
\* and only the callback of its own scan when it is not; a
\* peripheral-discovered event invokes exactly the scan callbacks still
\* registered, one per startScan call, without deduplication.
C21_CancelClearsScans == [][C21_CancelStep /\ C21_DeliveryStep]_vars

\* A scan whose own cancel closure was never called gets no event, because
\* the closure of another scan was called.
C21_Witness ==
  /\ IsDiscoverEvent
  /\ last.data.peripheral # Absent
  /\ cancelled # {}
  /\ "stopScanningAsync" \notin unsupported
  /\ \E s \in (1..scans) \ cancelled : ScanDeliveries(s) = 0

\* C22: once a connectAsync call has failed, by a native failure or by its
\* timeout, the onDisconnect handler it was given is not registered, so no
\* later peripheral-disconnected event invokes it.
C22_FailedConnectLeavesNoHandler ==
  \A c \in Calls :
    conn[c].outcome \in {"NativeFailure", "ConnectTimeout"} =>
      Handler("onDisconnect", c)
        \notin Range(handlers[EVENTS.CENTRAL_DID_DISCONNECT_PERIPHERAL])

====
